---- MODULE Spec2Model ----
(***************************************************************************)
(* A model of scripts/scan_and_report.py: the start-up checks, the command *)
(* builder, the per-host runner, the worker pool of main() and the         *)
(* notification step.                                                      *)
(*                                                                         *)
(* Texts are sequences of characters or of words.  A file's content is a   *)
(* sequence over Chars; the wrapper's log is a sequence of words, in which *)
(* the two needles of the log check ("DETECTED", "Matches:") are words of  *)
(* their own, so that `needle in content` is membership of a word.         *)
(***************************************************************************)
EXTENDS Integers, Sequences, FiniteSets, TLC

\* ---------------------------------------------------------------- bounds
MaxLevels == 2
MaxTextLen == 3
MainHosts == 2
MainFiles == 1
HostFiles == 2
PoolHosts == 5
PoolFiles == 1

\* ThreadPoolExecutor(max_workers=4)
MaxWorkers == 4

VARIABLES
    \* the environment-derived settings (module level, lines 18-46)
    CHAINS_MODE, CHAINS_FORMAT, CHAINS_LEVELS, SIGMA_DIR, MAPPING_YML,
    CHAINS_RULE_DIR, QUIET, LOCAL_TIME, TIMEZONE, FROM, TO,
    \* the file system the start-up checks look at, and REPORTS_DIR
    fs,
    \* what the installed SCANNER can write and print, and the steps of
    \* run_for_host that can raise in this environment
    scanner, faults,
    \* the host directories under EVTX_ROOT: name and number of .evtx files
    hostName, evtx_files,
    \* main(): position, the pool's work queue, the collected results, the
    \* calls of send_mail
    mainPc, queue, collected, results, mails,
    \* run_for_host, per host
    pc, idx, made, out_dir, log_text, temp_rules_dir, argv, procs, spawned,
    exc, ret,
    \* the last call of build_hunt_cmd_for_file checked on its own
    built

config == <<CHAINS_MODE, CHAINS_FORMAT, CHAINS_LEVELS, SIGMA_DIR, MAPPING_YML,
            CHAINS_RULE_DIR, QUIET, LOCAL_TIME, TIMEZONE, FROM, TO>>
world == <<scanner, faults, hostName, evtx_files>>
mainVars == <<mainPc, queue, collected, results, mails>>
hostVars == <<pc, idx, made, out_dir, log_text, temp_rules_dir, argv, procs,
              spawned, exc, ret>>
vars == <<config, fs, world, mainVars, hostVars, built>>

Hosts == DOMAIN pc

None == "None"

\* ------------------------------------------------------ sequences, texts
RECURSIVE SeqsUpTo(_, _)
SeqsUpTo(S, n) ==
    IF n = 0 THEN {<<>>}
    ELSE LET shorter == SeqsUpTo(S, n - 1)
         IN shorter \cup {Append(s, x) : s \in {t \in shorter : Len(t) = n - 1}, x \in S}

Contains(content, needle) == \E i \in 1..Len(content) : content[i] = needle

\* -------------------------------------------- build_hunt_cmd_for_file
RECURSIVE LevelArgs(_)
LevelArgs(levels) ==
    IF levels = <<>> THEN <<>>
    ELSE <<"--level", Head(levels)>> \o LevelArgs(Tail(levels))

FormatArg ==
    IF CHAINS_FORMAT = "csv" THEN <<"--csv">>
    ELSE IF CHAINS_FORMAT = "json" THEN <<"--json">>
    ELSE IF CHAINS_FORMAT = "log" THEN <<"--log">>
    ELSE <<"--csv">>

TimeArgs ==
    IF LOCAL_TIME THEN <<"--local">>
    ELSE IF TIMEZONE # "" THEN <<"--timezone", TIMEZONE>>
    ELSE <<>>

WindowArgs ==
    (IF FROM # "" THEN <<"--from", FROM>> ELSE <<>>)
    \o (IF TO # "" THEN <<"--to", TO>> ELSE <<>>)

QuietArg(force_non_quiet) ==
    LET effective_quiet == QUIET /\ ~force_non_quiet
    IN IF effective_quiet THEN <<"-q">> ELSE <<>>

build_hunt_cmd_for_file(evtx_file, output_dir, rules_dir, force_non_quiet) ==
    <<"chainsaw", "hunt", "--mapping", MAPPING_YML, "--output", output_dir,
      "--sigma", SIGMA_DIR>>
    \o FormatArg
    \o LevelArgs(CHAINS_LEVELS)
    \o TimeArgs
    \o <<"-r", rules_dir>>
    \o WindowArgs
    \o QuietArg(force_non_quiet)
    \o <<evtx_file>>

\* ------------------------------------------------- file contents, lines
Chars == {"x", " ", "\n"}
Whitespace == {" ", "\n"}
Texts == SeqsUpTo(Chars, MaxTextLen)

\* str.splitlines(): a line ends at each line break; no empty last line
RECURSIVE SplitFrom(_, _, _)
SplitFrom(text, i, cur) ==
    IF i > Len(text) THEN (IF cur = <<>> THEN <<>> ELSE <<cur>>)
    ELSE IF text[i] = "\n" THEN <<cur>> \o SplitFrom(text, i + 1, <<>>)
    ELSE SplitFrom(text, i + 1, Append(cur, text[i]))

splitlines(text) == SplitFrom(text, 1, <<>>)

\* str.strip(): leading and trailing whitespace removed
RECURSIVE lstrip(_)
lstrip(s) == IF s # <<>> /\ Head(s) \in Whitespace THEN lstrip(Tail(s)) ELSE s

RECURSIVE rstrip(_)
rstrip(s) ==
    IF s # <<>> /\ s[Len(s)] \in Whitespace THEN rstrip(SubSeq(s, 1, Len(s) - 1))
    ELSE s

strip(s) == rstrip(lstrip(s))

\* rows = [ln for ln in text.splitlines() if ln.strip()]
rows(text) == SelectSeq(splitlines(text), LAMBDA ln : strip(ln) # <<>>)

\* ------------------------------------------- the output directory, glob
\* A directory is a function from the names present in it to their content;
\* a content that cannot be read makes read_text raise.
Name(stem, ext) == [stem |-> stem, ext |-> ext]
SortedNames == <<Name("a", "csv"), Name("a", "json"), Name("b", "csv"), Name("b", "json")>>
PathStr(n) == n.stem \o "." \o n.ext
EmptyDir == [n \in {} |-> 0]
Readable(t) == [readable |-> TRUE, text |-> t]
Unreadable == [readable |-> FALSE, text |-> <<>>]

\* sorted(Path(out_dir).glob("*.<ext>"))
SortedGlob(dir, ext) ==
    SelectSeq(SortedNames, LAMBDA n : n \in DOMAIN dir /\ n.ext = ext)

\* ------------------------------------------------- the detection check
\* the header alone counts as a finding
CsvHit_header(content) == content.readable /\ Len(rows(content.text)) > 0

\* lines 182-184 and 232-234
CsvHit(content) == content.readable /\ Len(rows(content.text)) > 1

RECURSIVE CsvCheck(_, _)
CsvCheck(dir, paths) ==
    IF paths = <<>> THEN [detected |-> FALSE, report_path |-> None]
    ELSE IF CsvHit(dir[Head(paths)])
         THEN [detected |-> TRUE, report_path |-> PathStr(Head(paths))]
         ELSE CsvCheck(dir, Tail(paths))

\* the content is not stripped
JsonHit_nostrip(content) == content.readable /\ content.text # <<>>

\* lines 193 and 243
JsonHit(content) == content.readable /\ strip(content.text) # <<>>

RECURSIVE JsonCheck(_, _)
JsonCheck(dir, paths) ==
    IF paths = <<>> THEN [detected |-> FALSE, report_path |-> None]
    ELSE IF JsonHit(dir[Head(paths)])
         THEN [detected |-> TRUE, report_path |-> PathStr(Head(paths))]
         ELSE JsonCheck(dir, Tail(paths))

\* only one of the two needles is looked for
LogCheck_oneNeedle(content) ==
    [detected |-> Contains(content, "DETECTED"), report_path |-> None]

\* verbose branch, lines 199-205: the wrapper's own log decides
LogCheck(content) ==
    [detected |-> Contains(content, "DETECTED") \/ Contains(content, "Matches:"),
     report_path |-> None]

\* the check of the verbose branch, lines 174-205
VerboseCheck(dir, content) ==
    IF CHAINS_FORMAT = "csv" THEN CsvCheck(dir, SortedGlob(dir, "csv"))
    ELSE IF CHAINS_FORMAT = "json" THEN JsonCheck(dir, SortedGlob(dir, "json"))
    ELSE LogCheck(content)

\* the check of the quiet branch, lines 228-251
QuietCheck(dir) ==
    IF CHAINS_FORMAT = "csv" THEN CsvCheck(dir, SortedGlob(dir, "csv"))
    ELSE IF CHAINS_FORMAT = "json" THEN JsonCheck(dir, SortedGlob(dir, "json"))
    ELSE [detected |-> FALSE, report_path |-> None]

\* ----------------------------------------------------- paths of a host
RECURSIVE JoinStr(_)
JoinStr(words) == IF words = <<>> THEN "" ELSE Head(words) \o JoinStr(Tail(words))

\* host = os.path.basename(host_dir.rstrip("/"))
HostStr(h) == JoinStr(hostName[h])
HostDirWords(h) == <<"/evtx/">> \o hostName[h]
\* out_dir = os.path.join(REPORTS_DIR, f"{host}-{ts}")
OutDirStr(h) == "/reports/" \o HostStr(h) \o "-ts"
OutDirWords(h) == <<"/reports/">> \o hostName[h] \o <<"-ts">>
LogPath(h) == OutDirStr(h) \o "/" \o HostStr(h) \o "-ts.log"
EvtxFile(h, i) == "/evtx/" \o HostStr(h) \o "/f" \o ToString(i) \o ".evtx"
EvtxFileWords(h, i) == HostDirWords(h) \o <<"/f" \o ToString(i) \o ".evtx">>
\* tempfile.mkdtemp(prefix="chainsaw_rules_")
TempRulesPath(h) == "/tmp/chainsaw_rules_" \o ToString(h)
\* rules_dir, lines 140-144
RulesDir(h) == IF CHAINS_RULE_DIR # "" THEN CHAINS_RULE_DIR ELSE TempRulesPath(h)

\* ------------------------------------------------- the wrapper's log
RECURSIVE TargetLines(_, _)
TargetLines(h, i) ==
    IF i > evtx_files[h] THEN <<>>
    ELSE <<"#">> \o EvtxFileWords(h, i) \o TargetLines(h, i + 1)

\* lines 151-166: the header, and the note for a host without input
LogHeader(h) ==
    <<"# started:", "# host_dir:">> \o HostDirWords(h)
    \o <<"# levels:">> \o (IF CHAINS_LEVELS # <<>> THEN CHAINS_LEVELS ELSE <<"ALL">>)
    \o <<"# mode:", CHAINS_MODE, "format:", CHAINS_FORMAT>>
    \o <<"# output_dir:">> \o OutDirWords(h)
    \o <<"# rules_dir:", RulesDir(h)>>
    \o <<"# target files:">>
    \o (IF evtx_files[h] > 0 THEN TargetLines(h, 1) ELSE <<"#", "(none found)">>)
    \o <<"# target count:", ToString(evtx_files[h])>>
    \o (IF evtx_files[h] = 0 THEN <<"# skipped: no .evtx found">> ELSE <<>>)

\* ------------------------------------------------------- the SCANNER
\* The extension the SCANNER writes, from the format flag of its command.
ScannerExt(cmd) ==
    IF Contains(cmd, "--csv") THEN "csv"
    ELSE IF Contains(cmd, "--json") THEN "json"
    ELSE ""

\* The directories one invocation may leave behind: any of its artifacts
\* written or rewritten, the rest as it was.
ScannerWrites(dir, cmd) ==
    IF ScannerExt(cmd) = "" THEN {dir}
    ELSE LET names == {Name(st, ScannerExt(cmd)) : st \in scanner.stems}
         IN {w @@ dir : w \in UNION {[S -> scanner.contents] : S \in SUBSET names}}

\* ------------------------------------------------------ run_for_host
\* A worker thread runs run_for_host from one blocking call to the next: the
\* only call that waits is subprocess.run, so a host is either waiting in the
\* queue, waiting for its SCANNER, or finished.
Running == {h \in Hosts : pc[h] = "scanning"}

\* a pool without a limit
WorkerFree_unbounded == TRUE

\* ThreadPoolExecutor(max_workers=4): a worker is free
WorkerFree == Cardinality(Running) < MaxWorkers

PoolAlive == mainPc \in {"collect", "unwind"}

\* the removal is forgotten
Finally_keep(temp, dirs) == dirs

\* finally, lines 270-273
Finally(temp, dirs) == IF temp # None /\ temp \in dirs THEN dirs \ {temp} ELSE dirs

\* except, lines 262-269
ExceptResult(h) ==
    [host |-> hostName[h], report_path |-> None,
     log_path |-> IF QUIET THEN None ELSE LogPath(h), detected |-> FALSE]

\* lines 207-215 and 253-260
Result(h, found) ==
    [host |-> hostName[h], report_path |-> found.report_path,
     log_path |-> IF QUIET THEN None ELSE LogPath(h), detected |-> found.detected]

\* The steps of the try that can raise with i files done: opening the log and
\* writing its header (verbose, before the first file), writing the command
\* line or starting the SCANNER, listing the artifacts for the check.
TrySteps(h, i) ==
    faults \cap
      ((IF i = 0 /\ ~QUIET THEN {"log"} ELSE {})
       \cup (IF i < evtx_files[h] THEN {"scanner"}
             ELSE IF CHAINS_FORMAT \in {"csv", "json"} THEN {"detect"}
             ELSE {}))

\* subprocess.run(cmd, ...), lines 172 and 226: the SCANNER runs and the
\* thread waits for it
StartScanner(h, cmd, p) ==
    /\ argv' = [argv EXCEPT ![h] = cmd]
    /\ procs' = [procs EXCEPT ![h] = p + 1]
    /\ spawned' = [spawned EXCEPT ![h] = @ + 1]
    /\ pc' = [pc EXCEPT ![h] = "scanning"]

\* run_for_host returns r; the finally removes the temporary rules directory
Return(h, r, temp, dirs, p) ==
    /\ ret' = [ret EXCEPT ![h] = r]
    /\ fs' = [fs EXCEPT !.dirs = Finally(temp, dirs)]
    /\ pc' = [pc EXCEPT ![h] = "done"]
    /\ procs' = [procs EXCEPT ![h] = p]
    /\ UNCHANGED <<argv, spawned>>

\* The body of the try from the (i+1)-th input file on, with the output
\* directory dir, the log text log, the directories dirs and p SCANNER
\* processes of the host still running: the next SCANNER
\* is started (lines 169-172, 224-226), or after the last one the check is made
\* and its result returned (lines 174-215, 228-260), or a step raises and the
\* except returns (lines 262-269).
Proceed(h, i, dir, log, temp, dirs, p) ==
    /\ idx' = [idx EXCEPT ![h] = i]
    /\ out_dir' = [out_dir EXCEPT ![h] = dir]
    /\ temp_rules_dir' = [temp_rules_dir EXCEPT ![h] = temp]
    /\ \/ /\ i < evtx_files[h]
          /\ LET cmd == build_hunt_cmd_for_file(EvtxFile(h, i + 1), OutDirStr(h),
                                                RulesDir(h), ~QUIET)
             IN /\ StartScanner(h, cmd, p)
                /\ log_text' = [log_text EXCEPT ![h] =
                                  IF QUIET THEN log ELSE log \o <<"# cmd:">> \o cmd]
          /\ fs' = [fs EXCEPT !.dirs = dirs]
          /\ UNCHANGED <<ret, exc>>
       \/ /\ i = evtx_files[h]
          /\ log_text' = [log_text EXCEPT ![h] = log]
          /\ Return(h, Result(h, IF QUIET THEN QuietCheck(dir) ELSE VerboseCheck(dir, log)),
                    temp, dirs, p)
          /\ UNCHANGED exc
       \/ /\ \E step \in TrySteps(h, i) :
                /\ exc' = [exc EXCEPT ![h] = step]
                /\ log_text' = [log_text EXCEPT ![h] = IF step = "log" THEN <<>> ELSE log]
          /\ Return(h, ExceptResult(h), temp, dirs, p)

\* The steps before the try, lines 127-144, that can raise: the exception
\* leaves run_for_host.
SetupSteps ==
    faults \cap ({"makedirs", "enumerate"}
                 \cup (IF CHAINS_RULE_DIR = "" THEN {"mkdtemp"} ELSE {}))

\* A worker takes the next host from the queue and runs run_for_host up to
\* its first SCANNER (or to its end).
Start(h) ==
    /\ PoolAlive /\ pc[h] = "pending"
    /\ queue # <<>> /\ Head(queue) = h
    /\ WorkerFree
    /\ queue' = Tail(queue)
    /\ \/ /\ \E step \in SetupSteps :
                /\ made' = IF step = "makedirs" THEN made ELSE made \cup {h}
                /\ exc' = [exc EXCEPT ![h] = step]
          /\ pc' = [pc EXCEPT ![h] = "raised"]
          /\ UNCHANGED <<fs, idx, out_dir, log_text, temp_rules_dir, argv, procs,
                         spawned, ret>>
       \/ /\ made' = made \cup {h}
          /\ LET temp == IF CHAINS_RULE_DIR = "" THEN TempRulesPath(h) ELSE None
                 dirs == IF temp # None THEN fs.dirs \cup {temp} ELSE fs.dirs
             IN Proceed(h, 0, EmptyDir, IF QUIET THEN <<>> ELSE LogHeader(h), temp, dirs,
                        procs[h])
    /\ UNCHANGED <<config, world, mainPc, collected, results, mails, built>>

\* subprocess.run waits for the SCANNER: when it returns, the process is gone
Waited(h) == procs[h] - 1

\* subprocess.run returns: the SCANNER exited, whatever its status; its
\* artifacts are in out_dir and, verbose, its output is in the log. The
\* thread goes on to the next file or to the check.
ScannerExit(h) ==
    /\ pc[h] = "scanning"
    /\ \E dir \in ScannerWrites(out_dir[h], argv[h]), said \in scanner.says :
          Proceed(h, idx[h] + 1, dir,
                  IF QUIET THEN log_text[h] ELSE log_text[h] \o said,
                  temp_rules_dir[h], fs.dirs, Waited(h))
    /\ UNCHANGED <<config, world, mainVars, made, built>>

\* ------------------------------------------------ the start-up checks
\* die(), lines 49-51: sys.exit(1)
die == "died"

\* line 53
CheckMode ==
    /\ mainPc = "check_mode"
    /\ mainPc' = IF CHAINS_MODE # "hunt" THEN die ELSE "check_root"
    /\ UNCHANGED <<config, fs, world, queue, collected, results, mails, hostVars, built>>

\* line 56
CheckRoot ==
    /\ mainPc = "check_root"
    /\ mainPc' = IF ~fs.evtxRoot THEN die ELSE "check_sigma"
    /\ UNCHANGED <<config, fs, world, queue, collected, results, mails, hostVars, built>>

\* line 59
CheckSigma ==
    /\ mainPc = "check_sigma"
    /\ mainPc' = IF SIGMA_DIR = "" \/ ~fs.sigma THEN die ELSE "check_mapping"
    /\ UNCHANGED <<config, fs, world, queue, collected, results, mails, hostVars, built>>

\* only the setting is checked, not the file
CheckMapping_unsetOnly ==
    /\ mainPc = "check_mapping"
    /\ mainPc' = IF MAPPING_YML = "" THEN die ELSE "makedirs"
    /\ UNCHANGED <<config, fs, world, queue, collected, results, mails, hostVars, built>>

\* line 62
CheckMapping ==
    /\ mainPc = "check_mapping"
    /\ mainPc' = IF MAPPING_YML = "" \/ ~fs.mapping THEN die ELSE "makedirs"
    /\ UNCHANGED <<config, fs, world, queue, collected, results, mails, hostVars, built>>

\* line 65: os.makedirs(REPORTS_DIR, exist_ok=True)
MakeReportsDir ==
    /\ mainPc = "makedirs"
    /\ fs' = [fs EXCEPT !.reports = TRUE]
    /\ mainPc' = "main"
    /\ UNCHANGED <<config, world, queue, collected, results, mails, hostVars, built>>

\* ------------------------------------------------------------- main()
RECURSIVE Upto(_, _)
Upto(i, n) == IF i > n THEN <<>> ELSE <<i>> \o Upto(i + 1, n)

\* lines 306-314: the host directories are listed and all submitted
Submit ==
    /\ mainPc = "main"
    /\ IF Hosts = {}
       THEN mainPc' = die /\ UNCHANGED <<queue, pc>>
       ELSE /\ queue' = Upto(1, Cardinality(Hosts))
            /\ pc' = [h \in Hosts |-> "pending"]
            /\ mainPc' = "collect"
    /\ UNCHANGED <<config, fs, world, collected, results, mails, idx, made, out_dir,
                   log_text, temp_rules_dir, argv, procs, spawned, exc, ret, built>>

Finished(h) == pc[h] \in {"done", "raised"}

\* lines 315-319: as_completed hands over a finished future; fut.result()
\* returns its result or raises its exception
Collect(h) ==
    /\ mainPc = "collect"
    /\ h \notin collected /\ Finished(h)
    /\ collected' = collected \cup {h}
    /\ IF pc[h] = "raised"
       THEN mainPc' = "unwind" /\ UNCHANGED results
       ELSE results' = Append(results, ret[h]) /\ UNCHANGED mainPc
    /\ UNCHANGED <<config, fs, world, queue, mails, hostVars, built>>

\* the exception leaves the with block, whose exit waits for every host
Unwind ==
    /\ mainPc = "unwind"
    /\ \A h \in Hosts : Finished(h)
    /\ mainPc' = "crashed"
    /\ UNCHANGED <<config, fs, world, queue, collected, results, mails, hostVars, built>>

\* line 322
detected_hosts(res) == SelectSeq(res, LAMBDA r : r.detected)

Line(kind, host, path) == [kind |-> kind, host |-> host, path |-> path]

RECURSIVE HostLines(_)
HostLines(rs) ==
    IF rs = <<>> THEN <<>>
    ELSE <<Line("host", Head(rs).host,
                IF Head(rs).report_path # None THEN Head(rs).report_path
                ELSE "(report not found)")>>
         \o HostLines(Tail(rs))

\* lines 324-334
MailBody(dh) ==
    <<Line("title", <<>>, ""), Line("mode", <<>>, CHAINS_FORMAT)>>
    \o (IF CHAINS_LEVELS # <<>> THEN <<Line("levels", <<>>, "")>> ELSE <<>>)
    \o (IF FROM # "" \/ TO # "" THEN <<Line("period", <<>>, "")>> ELSE <<>>)
    \o <<Line("", <<>>, "")>>
    \o HostLines(dh)

\* line 336
MailSubject(dh) == [prefix |-> "[Chainsaw Detection]", count |-> Len(dh)]

\* the summary is sent whatever was found
ShouldNotify_always(dh) == TRUE

\* line 323: the summary is sent when some host was detected
ShouldNotify(dh) == dh # <<>>

\* lines 322-339, after the with block: the summary and send_mail, which
\* skips (settings missing), sends, or raises (transport failure)
Summarize ==
    /\ mainPc = "collect"
    /\ collected = Hosts
    /\ LET dh == detected_hosts(results)
       IN IF ShouldNotify(dh)
          THEN \E outcome \in {"skipped", "sent", "raised"} :
                  /\ mails' = Append(mails, [subject |-> MailSubject(dh),
                                             body |-> MailBody(dh),
                                             outcome |-> outcome])
                  /\ mainPc' = IF outcome = "raised" THEN "crashed" ELSE "exit0"
          ELSE mainPc' = "exit0" /\ UNCHANGED mails
    /\ UNCHANGED <<config, fs, world, queue, collected, results, hostVars, built>>

\* the exit status of the process
ExitStatus == IF mainPc = "exit0" THEN 0 ELSE 1

Next ==
    \/ CheckMode \/ CheckRoot \/ CheckSigma \/ CheckMapping \/ MakeReportsDir
    \/ Submit
    \/ \E h \in Hosts : Start(h)
    \/ \E h \in Hosts : ScannerExit(h)
    \/ \E h \in Hosts : Collect(h)
    \/ Unwind
    \/ Summarize

\* ------------------------------------------------------ initial states
NoRet == [host |-> <<>>, report_path |-> None, log_path |-> None, detected |-> FALSE]

InitRun(n) ==
    /\ mainPc = "check_mode" /\ queue = <<>> /\ collected = {}
    /\ results = <<>> /\ mails = <<>>
    /\ pc = [h \in 1..n |-> "unlisted"]
    /\ idx = [h \in 1..n |-> 0]
    /\ made = {}
    /\ out_dir = [h \in 1..n |-> EmptyDir]
    /\ log_text = [h \in 1..n |-> <<>>]
    /\ temp_rules_dir = [h \in 1..n |-> None]
    /\ argv = [h \in 1..n |-> <<>>]
    /\ procs = [h \in 1..n |-> 0]
    /\ spawned = [h \in 1..n |-> 0]
    /\ exc = [h \in 1..n |-> "none"]
    /\ ret = [h \in 1..n |-> NoRet]
    /\ built = <<>>

PlainName(h) == <<"HOST-" \o ToString(h)>>
NeedleName(h) == <<"DETECTED", "-PC" \o ToString(h)>>

\* a start-up that passes every check; the rest of the settings as given
InitSettings(formats, quiets, ruleDirs) ==
    /\ CHAINS_MODE = "hunt" /\ SIGMA_DIR = "/sigma" /\ MAPPING_YML = "/mapping.yml"
    /\ CHAINS_FORMAT \in formats
    /\ QUIET \in quiets
    /\ CHAINS_RULE_DIR \in ruleDirs
    /\ CHAINS_LEVELS = <<>> /\ LOCAL_TIME = TRUE /\ TIMEZONE = "" /\ FROM = "" /\ TO = ""
    /\ fs = [evtxRoot |-> TRUE, sigma |-> TRUE, mapping |-> TRUE, reports |-> FALSE,
             dirs |-> IF CHAINS_RULE_DIR # "" THEN {CHAINS_RULE_DIR} ELSE {}]

AllSteps == {"makedirs", "enumerate", "mkdtemp", "log", "scanner", "detect"}

HeaderOnly == <<"x">>
HeaderAndRow == <<"x", "\n", "x">>
MatchLine == <<"[+]", "Matches:", "1">>

RichScanner ==
    [stems |-> {"a", "b"},
     contents |-> {Readable(t) : t \in Texts} \cup {Unreadable},
     says |-> {<<"ok">>}]
PlainScanner ==
    [stems |-> {"a"},
     contents |-> {Readable(HeaderOnly), Readable(HeaderAndRow)},
     says |-> {<<"ok">>, MatchLine}]
MinimalScanner ==
    [stems |-> {"a"}, contents |-> {Readable(HeaderAndRow)}, says |-> {<<"ok">>}]

\* a start-up check fails: every combination of the four preconditions
InitStartup ==
    /\ CHAINS_MODE \in {"hunt", "search"}
    /\ SIGMA_DIR \in {"", "/sigma"}
    /\ MAPPING_YML \in {"", "/mapping.yml"}
    /\ \E root \in BOOLEAN, sg \in BOOLEAN, mp \in BOOLEAN :
          /\ SIGMA_DIR = "" => ~sg
          /\ MAPPING_YML = "" => ~mp
          /\ fs = [evtxRoot |-> root, sigma |-> sg, mapping |-> mp, reports |-> FALSE,
                   dirs |-> {}]
    /\ CHAINS_FORMAT = "csv" /\ QUIET \in BOOLEAN /\ CHAINS_RULE_DIR = ""
    /\ CHAINS_LEVELS = <<>> /\ LOCAL_TIME = TRUE /\ TIMEZONE = "" /\ FROM = "" /\ TO = ""
    /\ scanner = MinimalScanner /\ faults = AllSteps
    /\ \E n \in 0..1 :
          /\ ~fs.evtxRoot => n = 0
          /\ hostName = [h \in 1..n |-> PlainName(h)]
          /\ evtx_files = [h \in 1..n |-> 1]
          /\ InitRun(n)

\* a whole run over up to MainHosts host directories
InitMain ==
    /\ InitSettings({"csv", "log"}, BOOLEAN, {""})
    /\ scanner = [MinimalScanner EXCEPT !.says = {<<"ok">>, MatchLine}]
    /\ faults = AllSteps
    /\ \E n \in 0..MainHosts :
          /\ hostName = [h \in 1..n |-> PlainName(h)]
          /\ evtx_files = [h \in 1..n |-> MainFiles]
          /\ InitRun(n)

Init == InitStartup \/ InitMain

Spec == Init /\ [][Next]_vars

\* one host directory: every format, both modes, with and without a
\* configured rules directory, a name with and without a needle of the log
\* check, and a SCANNER that writes any artifacts
InitHost ==
    /\ \/ /\ InitSettings({"csv", "json"}, BOOLEAN, {""})
          /\ scanner = RichScanner
          /\ hostName = [h \in 1..1 |-> PlainName(h)]
          /\ evtx_files = [h \in 1..1 |-> 1]
       \/ /\ InitSettings({"csv", "json", "log", "xml"}, BOOLEAN, {"", "/rules"})
          /\ scanner = PlainScanner
          /\ hostName \in [1..1 -> {PlainName(1), NeedleName(1)}]
          /\ evtx_files \in [1..1 -> 0..HostFiles]
    /\ faults = AllSteps
    /\ InitRun(1)

SpecHost == InitHost /\ [][Next]_vars

\* more host directories than workers, a SCANNER that finds nothing
InitPool ==
    /\ InitSettings({"csv"}, {TRUE}, {""})
    /\ scanner = [MinimalScanner EXCEPT !.stems = {}] /\ faults = {"makedirs"}
    /\ hostName = [h \in 1..PoolHosts |-> PlainName(h)]
    /\ evtx_files = [h \in 1..PoolHosts |-> PoolFiles]
    /\ InitRun(PoolHosts)

SpecPool == InitPool /\ [][Next]_vars

\* -------------------------------------- the command builder on its own
\* build_hunt_cmd_for_file applied to arguments of run_for_host's kind
BuildCmd ==
    /\ built = <<>>
    /\ \E evtx_file \in {"/evtx/HOST-1/f1.evtx"}, output_dir \in {"/reports/HOST-1-ts"},
          rules_dir \in {RulesDir(1)}, force_non_quiet \in BOOLEAN :
          built' = <<[evtx_file |-> evtx_file, output_dir |-> output_dir,
                      rules_dir |-> rules_dir, force_non_quiet |-> force_non_quiet,
                      cmd |-> build_hunt_cmd_for_file(evtx_file, output_dir, rules_dir,
                                                      force_non_quiet)]>>
    /\ UNCHANGED <<config, fs, world, mainVars, hostVars>>

Levels == {"high", "critical"}

\* every setting the builder reads, the start-up checks passed
InitBuild ==
    /\ CHAINS_MODE = "hunt" /\ SIGMA_DIR = "/sigma" /\ MAPPING_YML = "/mapping.yml"
    /\ CHAINS_FORMAT \in {"csv", "json", "log", "xml", ""}
    /\ CHAINS_LEVELS \in SeqsUpTo(Levels, MaxLevels)
    /\ CHAINS_RULE_DIR \in {"", "/rules"}
    /\ QUIET \in BOOLEAN
    /\ LOCAL_TIME \in BOOLEAN
    /\ TIMEZONE \in {"", "Asia/Tokyo"}
    /\ FROM \in {"", "2024-01-01T00:00:00"}
    /\ TO \in {"", "2024-12-31T00:00:00"}
    /\ fs = [evtxRoot |-> TRUE, sigma |-> TRUE, mapping |-> TRUE, reports |-> TRUE,
             dirs |-> IF CHAINS_RULE_DIR # "" THEN {CHAINS_RULE_DIR} ELSE {}]
    /\ scanner = MinimalScanner /\ faults = {}
    /\ hostName = [h \in 1..0 |-> PlainName(h)]
    /\ evtx_files = [h \in 1..0 |-> 0]
    /\ InitRun(0)

SpecBuild == InitBuild /\ [][BuildCmd]_vars

\* ============================================================== claims
ResultsOf(h) == {i \in 1..Len(results) : results[i].host = hostName[h]}

\* C1: whichever step of run_for_host raises for one host, main() collects
\* one result for every host directory, the failing host's result has
\* detected = false and report_path = null, and no exception leaves the
\* result-collection loop of main().
C1_PartialFailureIsolation ==
    /\ mainPc # "unwind"
    /\ mainPc \in {"exit0", "crashed"} => \A h \in Hosts : Cardinality(ResultsOf(h)) = 1
    /\ \A h \in Hosts :
          exc[h] # "none" /\ h \in collected =>
             \E i \in ResultsOf(h) :
                ~results[i].detected /\ results[i].report_path = None

\* C2: a host directory without input files yields detected = false and
\* report_path = null, in every format, mode and for every directory name,
\* and no SCANNER is invoked for it.
C2_NoInputNoDetection ==
    \A h \in Hosts :
       pc[h] = "done" /\ evtx_files[h] = 0 =>
          /\ ~ret[h].detected
          /\ ret[h].report_path = None
          /\ spawned[h] = 0

DetectedResults == {i \in 1..Len(results) : results[i].detected}
HostLinesOf(m) == {j \in 1..Len(m.body) : m.body[j].kind = "host"}

\* C3: send_mail is invoked exactly once in a complete run with a detected
\* host and never in one without; when invoked, every run_for_host has
\* returned, the subject carries the number of detected hosts, and the body
\* has one line per detected host with its report path or the placeholder.
C3_NotifyOnce ==
    /\ Len(mails) <= 1
    /\ mainPc = "exit0" => (Len(mails) = 1 <=> DetectedResults # {})
    /\ \A k \in 1..Len(mails) :
          /\ \A h \in Hosts : Finished(h)
          /\ mails[k].subject.count = Cardinality(DetectedResults)
          /\ Cardinality(HostLinesOf(mails[k])) = Cardinality(DetectedResults)
          /\ \A i \in DetectedResults :
                \E j \in HostLinesOf(mails[k]) :
                   /\ mails[k].body[j].host = results[i].host
                   /\ mails[k].body[j].path =
                         (IF results[i].report_path = None THEN "(report not found)"
                          ELSE results[i].report_path)

C3_Witness ==
    /\ mainPc = "exit0" /\ Len(results) = 2
    /\ Len(mails) = 1 /\ mails[1].subject.count = 1
    /\ \E j \in HostLinesOf(mails[1]) : mails[1].body[j].path = "(report not found)"

\* The number of non-blank lines of a text: the characters that are the
\* first non-blank one of their line.
NonBlankLines(text) ==
    Cardinality({i \in 1..Len(text) :
        /\ text[i] \notin Whitespace
        /\ \A j \in 1..(i - 1) :
              text[j] \notin Whitespace => \E k \in (j + 1)..(i - 1) : text[k] = "\n"})

CsvWithRows(h) ==
    {n \in DOMAIN out_dir[h] :
        n.ext = "csv" /\ out_dir[h][n].readable /\ NonBlankLines(out_dir[h][n].text) >= 2}

Before(n, m) == \E i, j \in 1..Len(SortedNames) :
                   i < j /\ SortedNames[i] = n /\ SortedNames[j] = m

CsvClaim(h) ==
    /\ ret[h].detected <=> CsvWithRows(h) # {}
    /\ ret[h].detected =>
          \E n \in CsvWithRows(h) :
             /\ ret[h].report_path = PathStr(n)
             /\ \A m \in CsvWithRows(h) : ~Before(m, n)

JsonWithContent(h) ==
    {n \in DOMAIN out_dir[h] :
        /\ n.ext = "json" /\ out_dir[h][n].readable
        /\ \E i \in 1..Len(out_dir[h][n].text) : out_dir[h][n].text[i] \notin Whitespace}

LogHasNeedle(h) ==
    \E i \in 1..Len(log_text[h]) : log_text[h][i] \in {"DETECTED", "Matches:"}

C7_TempRulesRemoved ==
    /\ \A h \in Hosts :
          /\ pc[h] = "scanning" /\ CHAINS_RULE_DIR = "" =>
                temp_rules_dir[h] # None /\ temp_rules_dir[h] \in fs.dirs
          /\ Finished(h) /\ temp_rules_dir[h] # None => temp_rules_dir[h] \notin fs.dirs
    /\ CHAINS_RULE_DIR # "" => CHAINS_RULE_DIR \in fs.dirs

C7_Witness ==
    \E h \in Hosts :
       /\ pc[h] = "done" /\ exc[h] = "scanner" /\ idx[h] = 1
       /\ temp_rules_dir[h] = TempRulesPath(h)

\* ----- the SCANNER's argument grammar
Flags == {"--mapping", "--output", "--sigma", "--csv", "--json", "--log", "--level",
          "--local", "--timezone", "-r", "--from", "--to", "-q"}
IsValue(t) == t \notin Flags /\ t # ""

RECURSIVE SkipLevels(_)
SkipLevels(s) ==
    IF Len(s) >= 2 /\ s[1] = "--level" /\ IsValue(s[2])
    THEN SkipLevels(SubSeq(s, 3, Len(s)))
    ELSE s

Opt2(s, flag) ==
    IF Len(s) >= 2 /\ s[1] = flag /\ IsValue(s[2]) THEN SubSeq(s, 3, Len(s)) ELSE s
Opt1(s, flag) == IF Len(s) >= 1 /\ s[1] = flag THEN Tail(s) ELSE s

\* hunt --mapping M --output O --sigma S {--csv|--json|--log} [--level L]*
\* {--local | --timezone TZ} -r RULES [--from F] [--to T] [-q] PATH
ConformsToGrammar(cmd) ==
    /\ Len(cmd) >= 9
    /\ cmd[2] = "hunt"
    /\ cmd[3] = "--mapping" /\ IsValue(cmd[4])
    /\ cmd[5] = "--output" /\ IsValue(cmd[6])
    /\ cmd[7] = "--sigma" /\ IsValue(cmd[8])
    /\ cmd[9] \in {"--csv", "--json", "--log"}
    /\ LET b == SkipLevels(SubSeq(cmd, 10, Len(cmd)))
       IN /\ \/ Len(b) >= 1 /\ b[1] = "--local"
             \/ Len(b) >= 2 /\ b[1] = "--timezone" /\ IsValue(b[2])
          /\ LET c == IF b[1] = "--local" THEN Tail(b) ELSE SubSeq(b, 3, Len(b))
             IN /\ Len(c) >= 2 /\ c[1] = "-r" /\ IsValue(c[2])
                /\ LET f == Opt1(Opt2(Opt2(SubSeq(c, 3, Len(c)), "--from"), "--to"), "-q")
                   IN Len(f) = 1 /\ IsValue(f[1])

Count(cmd, S) == Cardinality({i \in 1..Len(cmd) : cmd[i] \in S})

\* C8: for every configuration the argument vector conforms to the grammar:
\* one format flag, exactly one of --local and --timezone TZ, -r present, the
\* input file last.
C8_Grammar ==
    \A k \in 1..Len(built) :
       LET cmd == built[k].cmd
       IN /\ ConformsToGrammar(cmd)
          /\ Count(cmd, {"--csv", "--json", "--log"}) = 1
          /\ Count(cmd, {"--local", "--timezone"}) = 1
          /\ Count(cmd, {"-r"}) = 1
          /\ cmd[Len(cmd)] = built[k].evtx_file

PreconditionFails ==
    \/ CHAINS_MODE # "hunt"
    \/ ~fs.evtxRoot
    \/ SIGMA_DIR = "" \/ ~fs.sigma
    \/ MAPPING_YML = "" \/ ~fs.mapping

\* C9: when a start-up precondition fails the process ends with status 1
\* before any work: no reports or output directory is created, no
\* run_for_host is dispatched, no SCANNER is invoked, no mail is sent.
C9_FatalBeforeWork ==
    PreconditionFails =>
       /\ mainPc \in {"check_mode", "check_root", "check_sigma", "check_mapping", die}
       /\ mainPc # die => ENABLED Next
       /\ mainPc = die => ExitStatus = 1
       /\ ~fs.reports /\ made = {} /\ queue = <<>> /\ mails = <<>>
       /\ \A h \in Hosts : pc[h] = "unlisted" /\ spawned[h] = 0 /\ procs[h] = 0

C9_Witness ==
    /\ mainPc = die
    /\ CHAINS_MODE = "hunt" /\ fs.evtxRoot /\ SIGMA_DIR # "" /\ fs.sigma
    /\ MAPPING_YML # "" /\ ~fs.mapping

RECURSIVE Sum(_, _)
Sum(f, S) == IF S = {} THEN 0
             ELSE LET x == CHOOSE y \in S : TRUE IN f[x] + Sum(f, S \ {x})

====
